---------------------------- MODULE Spec2Model ----------------------------
(***************************************************************************)
(* Model of ezdxf's upright transform (src/src/ezdxf/upright.py) and of    *)
(* the low level tag types (src/ezdxf/lldxf/types.py).                     *)
(*                                                                         *)
(* Numbers.  Coordinates, thickness and degree angles are integers (the    *)
(* operations on them are negation and subtraction from 180, exact on the  *)
(* floats used).  Ellipse parameters are milliradians.  A float held by a  *)
(* vertex tag is a number of tenths.                                       *)
(*                                                                         *)
(* Optional values.  An attribute that is not stored is the empty tuple,   *)
(* a stored attribute v is the one element tuple <<v>>.                    *)
(***************************************************************************)
EXTENDS Integers, Sequences, FiniteSets, TLC

VARIABLES
    entity,     \* Spec: the entity handed to upright()
    orig,       \* Spec: the entity as it was before the first call
    calls,      \* Spec: number of upright() calls made on the entity
    runs,       \* SpecAll: run id -> entity store processed by upright_all()
    order,      \* SpecAll: run id -> the sequence handed to upright_all(), <<>> before
    solo,       \* SpecAll: entity id -> a copy of the entity, upright() called alone
    soloCalls,  \* SpecAll: entity id -> number of upright() calls on the copy
    origs,      \* SpecAll: the entity store before any call
    code,       \* SpecTypes: the group code under inspection
    raw,        \* SpecTypes: the raw value handed to cast_tag_value()
    seen,       \* SpecTypes: results of the calls made so far
    vtag,       \* SpecVertex: the DXFVertex under inspection
    vinit,      \* SpecVertex: the (code, value) pair it was constructed from
    vobs,       \* SpecVertex: what the last call returned
    vops        \* SpecVertex: number of calls made on the tag

uprightVars == <<entity, orig, calls>>
allVars     == <<runs, order, solo, soloCalls, origs>>
typeVars    == <<code, raw, seen>>
vertexVars  == <<vtag, vinit, vobs, vops>>
vars        == <<entity, orig, calls, runs, order, solo, soloCalls, origs,
                 code, raw, seen, vtag, vinit, vobs, vops>>

(***************************************************************************)
(* Bounds of the model.                                                    *)
(***************************************************************************)
MaxCalls    == 2      \* upright() calls on one entity
MaxAngle    == 360    \* degree angles range over -MaxAngle .. MaxAngle
NumEntities == 2      \* entities handed to upright_all()

Absent  == <<>>
Some(v) == <<v>>

(***************************************************************************)
(* ezdxf.math: Vec3, OCS.  Vectors are triples of integers.                *)
(***************************************************************************)
X_AXIS  == <<1, 0, 0>>
Y_AXIS  == <<0, 1, 0>>
Z_AXIS  == <<0, 0, 1>>
NULLVEC == <<0, 0, 0>>

Neg(v) == <<-v[1], -v[2], -v[3]>>

Cross(a, b) ==
    <<a[2] * b[3] - a[3] * b[2], a[3] * b[1] - a[1] * b[3], a[1] * b[2] - a[2] * b[1]>>

Scale(a, k) == <<a[1] * k, a[2] * k, a[3] * k>>

Add(a, b) == <<a[1] + b[1], a[2] + b[2], a[3] + b[3]>>

\* Vec3.isclose() compares component by component within an absolute
\* tolerance.  The tolerance of the model is 1 / ABS_TOL_INV: it is scaled up
\* from ezdxf's 1e-12 so that a vector inside the tolerance has small integer
\* components ((1, 0, -10) here stands for a tilt such as (1e-13, 0, -1)).
ABS_TOL_INV == 10

\* Vec3(v).normalize(): the unit vector dir / sqrt(mag2), kept as that pair so
\* that no square root is taken.  Defined for dir # NULLVEC.
normalize(v) ==
    [dir |-> v, mag2 |-> v[1] * v[1] + v[2] * v[2] + v[3] * v[3]]

\* |c / sqrt(mag2) - a| <= 1 / ABS_TOL_INV for a in {-1, 0, 1}
CloseComponent(c, mag2, a) ==
    IF a = 0
    THEN c * c * ABS_TOL_INV * ABS_TOL_INV <= mag2
    ELSE /\ c * a > 0
         /\ c * c * ABS_TOL_INV * ABS_TOL_INV >= (ABS_TOL_INV - 1) * (ABS_TOL_INV - 1) * mag2

\* n.isclose(axis) for a normalized n and an axis with components in {-1, 0, 1}
isclose(n, axis) ==
    \A i \in 1..3 : CloseComponent(n.dir[i], n.mag2, axis[i])

\* The normalized vector is exactly the axis (no tolerance).
ExactlyAxis(v, axis) ==
    LET m2 == v[1] * v[1] + v[2] * v[2] + v[3] * v[3]
    IN  \A i \in 1..3 : /\ v[i] * v[i] = axis[i] * axis[i] * m2
                        /\ v[i] * axis[i] >= 0

\* OCS(extrusion) for a unit extrusion along a coordinate axis: the
\* arbitrary axis algorithm (|x| and |y| of the axes used here are 0 or 1).
OCS(extrusion) ==
    LET ux == IF extrusion[1] = 0 /\ extrusion[2] = 0
              THEN Cross(Y_AXIS, extrusion)
              ELSE Cross(Z_AXIS, extrusion)
    IN  [ux |-> ux, uy |-> Cross(extrusion, ux), uz |-> extrusion]

\* OCS.to_wcs(point)
to_wcs(ocs, p) ==
    Add(Add(Scale(ocs.ux, p[1]), Scale(ocs.uy, p[2])), Scale(ocs.uz, p[3]))

(***************************************************************************)
(* The entity attribute namespace (DXFNamespace): hasattr, get, set,       *)
(* discard.  A namespace is a function from attribute names to optional    *)
(* values.                                                                 *)
(***************************************************************************)
VERTEXNAMES == <<"vtx0", "vtx1", "vtx2", "vtx3">>

AttrNames ==
    {"extrusion", "center", "thickness", "start_angle", "end_angle",
     "start_param", "end_param", "vtx0", "vtx1", "vtx2", "vtx3",
     "major_axis", "ratio"}

\* math.tau in milliradians: the default of an ellipse's end_param
TAU_MRAD == 6283

\* The value an attribute reads as when it is not stored.
DefaultValue(name) ==
    CASE name \in {"center", "vtx0", "vtx1", "vtx2", "vtx3"} -> NULLVEC
      [] name = "extrusion"   -> Z_AXIS
      [] name = "major_axis"  -> X_AXIS
      [] name = "thickness"   -> 0
      [] name = "start_angle" -> 0
      [] name = "end_angle"   -> 360
      [] name = "start_param" -> 0
      [] name = "end_param"   -> TAU_MRAD
      [] name = "ratio"       -> 1

hasattr(dxf, name) == dxf[name] # Absent

\* dxf.get(name) and dxf.<name>
Get(dxf, name) == IF hasattr(dxf, name) THEN dxf[name][1] ELSE DefaultValue(name)

\* dxf.set(name, value) and dxf.<name> = value
Set(dxf, name, value) == [dxf EXCEPT ![name] = Some(value)]

\* dxf.discard(name): no-op when not stored
discard(dxf, name) == [dxf EXCEPT ![name] = Absent]

(***************************************************************************)
(* upright.py                                                              *)
(***************************************************************************)
FLIPPED_Z_AXIS == Neg(Z_AXIS)
FLIPPED_OCS    == OCS(FLIPPED_Z_AXIS)

\* variant: a zero angle is reflected as a negative one
_flip_deg_angle_strict(angle) == (IF angle > 0 THEN 180 ELSE -180) - angle

\* _flip_deg_angle(angle)
_flip_deg_angle(angle) == (IF angle >= 0 THEN 180 ELSE -180) - angle

_flip_vertex(vertex) == to_wcs(FLIPPED_OCS, vertex)

_flip_existing_vertex(dxf, name) ==
    IF hasattr(dxf, name)
    THEN Set(dxf, name, _flip_vertex(Get(dxf, name)))
    ELSE dxf

_flip_thickness(dxf) ==
    IF hasattr(dxf, "thickness")
    THEN Set(dxf, "thickness", -Get(dxf, "thickness"))
    ELSE dxf

\* variant: the extrusion is not discarded
_flip_circle_keep_extrusion(dxf) ==
    _flip_thickness(Set(dxf, "center", _flip_vertex(Get(dxf, "center"))))

_flip_circle(dxf) ==
    LET d1 == Set(dxf, "center", _flip_vertex(Get(dxf, "center")))
        d2 == _flip_thickness(d1)
    IN  discard(d2, "extrusion")

\* variant: end_angle is read after it was overwritten
_flip_arc_no_temp(dxf) ==
    LET d1 == _flip_circle(dxf)
        d2 == Set(d1, "end_angle", _flip_deg_angle(Get(d1, "start_angle")))
    IN  Set(d2, "start_angle", _flip_deg_angle(Get(d2, "end_angle")))

_flip_arc(dxf) ==
    LET d1 == _flip_circle(dxf)
        end_angle == Get(d1, "end_angle")
        d2 == Set(d1, "end_angle", _flip_deg_angle(Get(d1, "start_angle")))
    IN  Set(d2, "start_angle", _flip_deg_angle(end_angle))

RECURSIVE FlipVertices(_, _)
\* for name in const.VERTEXNAMES[i..]: _flip_existing_vertex(dxf, name)
FlipVertices(dxf, i) ==
    IF i > Len(VERTEXNAMES)
    THEN dxf
    ELSE FlipVertices(_flip_existing_vertex(dxf, VERTEXNAMES[i]), i + 1)

_flip_solid(dxf) ==
    discard(_flip_thickness(FlipVertices(dxf, 1)), "extrusion")

\* variant: the parameters are negated in place, not swapped
_flip_ellipse_no_swap(dxf) ==
    LET d1 == Set(dxf, "end_param", -Get(dxf, "end_param"))
        d2 == Set(d1, "start_param", -Get(d1, "start_param"))
    IN  discard(d2, "extrusion")

_flip_ellipse(dxf) ==
    LET end_param == -Get(dxf, "end_param")
        d1 == Set(dxf, "end_param", -Get(dxf, "start_param"))
        d2 == Set(d1, "start_param", end_param)
    IN  discard(d2, "extrusion")

\* the keys of SIMPLE_UPRIGHT_TOOLS
SimpleKinds == {"CIRCLE", "ARC", "SOLID", "TRACE", "ELLIPSE"}

\* SIMPLE_UPRIGHT_TOOLS[dxftype](dxf)
SIMPLE_UPRIGHT_TOOLS(dxftype, dxf) ==
    CASE dxftype = "CIRCLE"  -> _flip_circle(dxf)
      [] dxftype = "ARC"     -> _flip_arc(dxf)
      [] dxftype = "SOLID"   -> _flip_solid(dxf)
      [] dxftype = "TRACE"   -> _flip_solid(dxf)
      [] dxftype = "ELLIPSE" -> _flip_ellipse(dxf)

\* variant: the placeholder rewrites the entity the way _flip_solid does
_flip_complex_entity_as_solid(e) == [e EXCEPT !.dxf = _flip_solid(e.dxf)]

\* _flip_complex_entity(entity): pass
_flip_complex_entity(e) == e

\* the keys of COMPLEX_UPRIGHT_TOOLS
ComplexKinds == {"LWPOLYLINE", "POLYLINE", "HATCH", "MPOLYGON", "INSERT"}

\* COMPLEX_UPRIGHT_TOOLS.get(dxftype), followed by the call when the tool is
\* not None: only LWPOLYLINE has a tool.
COMPLEX_UPRIGHT_TOOLS(dxftype, e) ==
    IF dxftype = "LWPOLYLINE" THEN _flip_complex_entity(e) ELSE e

\* the entity classes derived from DXFGraphic
GraphicKinds == SimpleKinds \cup ComplexKinds \cup {"TEXT"}

\* isinstance(entity, DXFGraphic)
isinstance_DXFGraphic(e) == e.kind \in GraphicKinds

\* variant: the extrusion is not compared with FLIPPED_Z_AXIS
upright_any_extrusion(e) ==
    IF ~(isinstance_DXFGraphic(e) /\ e.is_alive /\ hasattr(e.dxf, "extrusion"))
    THEN e
    ELSE IF e.kind \in SimpleKinds
    THEN [e EXCEPT !.dxf = SIMPLE_UPRIGHT_TOOLS(e.kind, e.dxf)]
    ELSE COMPLEX_UPRIGHT_TOOLS(e.kind, e)

\* upright(entity): the entity after the call.  e.kind is entity.dxftype().
upright(e) ==
    IF ~(isinstance_DXFGraphic(e) /\ e.is_alive /\ hasattr(e.dxf, "extrusion"))
    THEN e
    ELSE IF ~isclose(normalize(Get(e.dxf, "extrusion")), FLIPPED_Z_AXIS)
    THEN e
    ELSE IF e.kind \in SimpleKinds
    THEN [e EXCEPT !.dxf = SIMPLE_UPRIGHT_TOOLS(e.kind, e.dxf)]
    ELSE COMPLEX_UPRIGHT_TOOLS(e.kind, e)

\* upright_all(entities): the store after the loop over the sequence ids[i..]
\* of references into it.
RECURSIVE upright_from(_, _, _)
upright_from(store, ids, i) ==
    IF i > Len(ids)
    THEN store
    ELSE upright_from([store EXCEPT ![ids[i]] = upright(store[ids[i]])], ids, i + 1)

\* variant: the loop stops before the last entity
upright_all_but_last(store, ids) ==
    upright_from(store, SubSeq(ids, 1, Len(ids) - 1), 1)

upright_all(store, ids) == upright_from(store, ids, 1)

(***************************************************************************)
(* Entities the transform is run on.                                       *)
(***************************************************************************)
EmptyDxf == [n \in AttrNames |-> Absent]

\* a namespace holding the attributes of the record attrs
MkDxf(attrs) == [n \in AttrNames |-> IF n \in DOMAIN attrs THEN attrs[n] ELSE Absent]

P1 == <<1, 1, 0>>
P2 == <<2, -3, 4>>

\* Extrusions: not stored, the flipped axis, a multiple of it, a tilt inside
\* the tolerance of isclose, tilts outside of it, the canonical axis.
ExtrusionOpts ==
    {Absent, Some(<<0, 0, -1>>), Some(<<0, 0, -3>>), Some(<<1, 0, -10>>),
     Some(<<1, 0, -9>>), Some(<<1, 0, -1>>), Some(<<0, 0, 1>>), Some(<<0, 1, 0>>)}

CenterOpts    == {Absent, Some(P1), Some(P2)}
ThicknessOpts == {Absent, Some(2), Some(-1)}
AngleOpts     == {Absent, Some(30), Some(120), Some(-45), Some(200)}
ParamOpts     == {Absent, Some(500), Some(2000), Some(-1500)}

CircleDxfs ==
    { MkDxf([extrusion |-> x, center |-> c, thickness |-> t]) :
        x \in ExtrusionOpts, c \in CenterOpts, t \in ThicknessOpts }

ArcDxfs ==
    { MkDxf([extrusion |-> x, center |-> c, thickness |-> t,
             start_angle |-> a, end_angle |-> b]) :
        x \in ExtrusionOpts, c \in {Absent, Some(P2)}, t \in {Absent, Some(2)},
        a \in AngleOpts, b \in AngleOpts }

\* arcs over the whole range of start angles
SweepArcDxfs ==
    { MkDxf([extrusion |-> Some(FLIPPED_Z_AXIS), center |-> Some(P1),
             start_angle |-> Some(a), end_angle |-> b]) :
        a \in (-MaxAngle)..MaxAngle, b \in {Absent, Some(120), Some(-200)} }

SolidDxfs ==
    { MkDxf([extrusion |-> x, thickness |-> t,
             vtx0 |-> v0, vtx1 |-> v1, vtx2 |-> v2, vtx3 |-> v3]) :
        x \in ExtrusionOpts, t \in {Absent, Some(2)},
        v0 \in {Absent, Some(P1)}, v1 \in {Absent, Some(P2)},
        v2 \in {Absent, Some(<<0, 5, 0>>)}, v3 \in {Absent, Some(<<0, 5, 0>>)} }

EllipseDxfs ==
    { MkDxf([extrusion |-> x, center |-> c, major_axis |-> m, ratio |-> Some(1),
             thickness |-> t, start_param |-> a, end_param |-> b]) :
        x \in ExtrusionOpts, c \in {Absent, Some(P2)}, m \in {Absent, Some(<<2, 0, 0>>)},
        t \in {Absent, Some(2)}, a \in ParamOpts, b \in ParamOpts }

\* attributes of the kinds upright() has no rewrite for
OtherDxfs ==
    { MkDxf([extrusion |-> x, center |-> c, thickness |-> t, start_angle |-> a,
             vtx0 |-> v0]) :
        x \in ExtrusionOpts, c \in {Absent, Some(P1)}, t \in {Absent, Some(2)},
        a \in {Absent, Some(30)}, v0 \in {Absent, Some(P2)} }

\* a kind outside DXFGraphic
NonGraphicKinds == {"DICTIONARY"}

DxfsOf(kind) ==
    CASE kind = "CIRCLE"  -> CircleDxfs
      [] kind = "ARC"     -> ArcDxfs \cup SweepArcDxfs
      [] kind = "SOLID"   -> SolidDxfs
      [] kind = "TRACE"   -> SolidDxfs
      [] kind = "ELLIPSE" -> EllipseDxfs
      [] OTHER            -> OtherDxfs

\* A destroyed entity (is_alive false) has lost its namespace: no attribute
\* is stored.  The extrusion of a live entity is never the null vector, which
\* cannot be normalized.
Entities ==
    UNION { { [kind |-> k, is_alive |-> TRUE, dxf |-> d] : d \in DxfsOf(k) } \cup
            { [kind |-> k, is_alive |-> FALSE, dxf |-> EmptyDxf] } :
            k \in GraphicKinds \cup NonGraphicKinds }

(***************************************************************************)
(* Spec: upright() called on one entity.                                   *)
(***************************************************************************)
IdleAll    == /\ runs = <<>> /\ order = <<>> /\ solo = <<>>
              /\ soloCalls = <<>> /\ origs = <<>>
IdleTypes  == /\ code = 0 /\ raw = <<>> /\ seen = <<>>
IdleVertex == /\ vtag = <<>> /\ vinit = <<>> /\ vobs = <<>> /\ vops = 0
IdleUpright == /\ entity = <<>> /\ orig = <<>> /\ calls = 0

Init ==
    /\ entity \in Entities
    /\ orig = entity
    /\ calls = 0
    /\ IdleAll /\ IdleTypes /\ IdleVertex

Upright ==
    /\ calls < MaxCalls
    /\ entity' = upright(entity)
    /\ calls' = calls + 1
    /\ UNCHANGED <<orig, allVars, typeVars, vertexVars>>

Next == Upright

Spec == Init /\ [][Next]_vars

(***************************************************************************)
(* Properties of upright(), checked under Spec.                            *)
(***************************************************************************)
Called == calls >= 1

\* the entity stores an extrusion whose normalization is exactly (0, 0, -1)
StoresFlippedAxis(e) ==
    IF hasattr(e.dxf, "extrusion")
    THEN ExactlyAxis(Get(e.dxf, "extrusion"), FLIPPED_Z_AXIS)
    ELSE FALSE

\* the entity stores an extrusion whose normalization is within the tolerance
\* of isclose of (0, 0, -1)
StoresCloseToFlippedAxis(e) ==
    IF hasattr(e.dxf, "extrusion")
    THEN isclose(normalize(Get(e.dxf, "extrusion")), FLIPPED_Z_AXIS)
    ELSE FALSE

\* C1 as stated: upright() changes nothing of an entity that is not a
\* graphical entity, or is not alive, or stores no extrusion, or whose
\* normalized extrusion is not (0, 0, -1).
C1_NoOpUnlessExactlyFlipped ==
    (Called /\ ~(/\ isinstance_DXFGraphic(orig)
                 /\ orig.is_alive
                 /\ StoresFlippedAxis(orig)))
        => entity = orig

\* C1 amended: upright() changes nothing (presence and value of every
\* attribute, kind and liveness) of an entity that is not a graphical entity,
\* or is not alive, or stores no extrusion, or whose normalized extrusion is
\* not within the comparison tolerance of (0, 0, -1).
C1_NoOpWhenGuardFails ==
    (Called /\ ~(/\ isinstance_DXFGraphic(orig)
                 /\ orig.is_alive
                 /\ StoresCloseToFlippedAxis(orig)))
        => entity = orig

\* C1 witness: upright() was called on a live arc whose extrusion is tilted
\* outside the tolerance.
C1_Witness ==
    /\ Called
    /\ orig.kind = "ARC" /\ orig.is_alive
    /\ orig.dxf["extrusion"] = Some(<<1, 0, -9>>)
    /\ hasattr(orig.dxf, "thickness")

\* C2: for an ARC whose normalized extrusion is (0, 0, -1), after upright()
\* the extrusion is not stored, center is the flipped old center, thickness is
\* negated when it was stored and still not stored otherwise, start_angle is
\* the reflected old end_angle and end_angle the reflected old start_angle
\* (old values are the values read before the call).
C2_ArcRewrite ==
    (Called /\ orig.kind = "ARC" /\ StoresFlippedAxis(orig)) =>
        /\ ~hasattr(entity.dxf, "extrusion")
        /\ entity.dxf["center"] = Some(_flip_vertex(Get(orig.dxf, "center")))
        /\ IF hasattr(orig.dxf, "thickness")
           THEN entity.dxf["thickness"] = Some(-Get(orig.dxf, "thickness"))
           ELSE ~hasattr(entity.dxf, "thickness")
        /\ entity.dxf["start_angle"] = Some(_flip_deg_angle(Get(orig.dxf, "end_angle")))
        /\ entity.dxf["end_angle"] = Some(_flip_deg_angle(Get(orig.dxf, "start_angle")))

\* C2 witness: the arc of the spec's scenario, start 30 and end 120, has
\* become start 60 and end 150.
C2_Witness ==
    /\ Called
    /\ orig.kind = "ARC"
    /\ orig.dxf["extrusion"] = Some(<<0, 0, -1>>)
    /\ orig.dxf["start_angle"] = Some(30) /\ orig.dxf["end_angle"] = Some(120)
    /\ orig.dxf["thickness"] = Some(2)
    /\ entity.dxf["start_angle"] = Some(60) /\ entity.dxf["end_angle"] = Some(150)
    /\ entity.dxf["thickness"] = Some(-2)

C4_Idempotent ==
    [][(Called /\ orig.kind \in SimpleKinds) => entity' = entity]_vars

\* C4 witness: the second call was made on an entity of a simple kind that
\* the first call rewrote.
C4_Witness ==
    /\ calls = 2
    /\ orig.kind \in SimpleKinds
    /\ entity # orig
    /\ hasattr(entity.dxf, "center")

\* C5: upright() changes no attribute of, and leaves the extrusion on, a live
\* graphical entity with extrusion (0, 0, -1) whose kind is none of CIRCLE,
\* ARC, SOLID, TRACE, ELLIPSE.
C5_OtherKindsUntouched ==
    (/\ Called
     /\ isinstance_DXFGraphic(orig) /\ orig.is_alive
     /\ StoresFlippedAxis(orig)
     /\ orig.kind \notin SimpleKinds)
        => /\ entity = orig
           /\ hasattr(entity.dxf, "extrusion")

\* C5 witness: upright() was called on a lightweight polyline with extrusion
\* (0, 0, -1) that stores a thickness and a vertex.
C5_Witness ==
    /\ Called
    /\ orig.kind = "LWPOLYLINE" /\ orig.is_alive
    /\ orig.dxf["extrusion"] = Some(<<0, 0, -1>>)
    /\ hasattr(orig.dxf, "thickness") /\ hasattr(orig.dxf, "vtx0")

\* the angles the arc stored before the call, each paired with the angle the
\* call stored as its reflection
ReflectedAngles ==
    (IF hasattr(orig.dxf, "start_angle")
     THEN {<<Get(orig.dxf, "start_angle"), Get(entity.dxf, "end_angle")>>}
     ELSE {})
    \cup
    (IF hasattr(orig.dxf, "end_angle")
     THEN {<<Get(orig.dxf, "end_angle"), Get(entity.dxf, "start_angle")>>}
     ELSE {})

\* C10 as stated: the arc rewrite reflects an angle theta to 180 - theta when
\* theta >= 0 and to -180 - theta when theta < 0, and the reflection is
\* non-negative when theta is non-negative and non-positive when theta is
\* negative.
C10_ReflectionKeepsSign ==
    (Called /\ orig.kind = "ARC" /\ StoresFlippedAxis(orig)) =>
        \A p \in ReflectedAngles :
            /\ p[2] = IF p[1] >= 0 THEN 180 - p[1] ELSE -180 - p[1]
            /\ p[1] >= 0 => p[2] >= 0
            /\ p[1] < 0 => p[2] <= 0

\* C10 amended: the arc rewrite reflects an angle theta to 180 - theta when
\* theta >= 0 and to -180 - theta when theta < 0; the reflection is
\* non-negative when 0 <= theta <= 180 and non-positive when
\* -180 <= theta < 0.
C10_ReflectionKeepsSignInHalfTurn ==
    (Called /\ orig.kind = "ARC" /\ StoresFlippedAxis(orig)) =>
        \A p \in ReflectedAngles :
            /\ p[2] = IF p[1] >= 0 THEN 180 - p[1] ELSE -180 - p[1]
            /\ (0 <= p[1] /\ p[1] <= 180) => p[2] >= 0
            /\ (-180 <= p[1] /\ p[1] < 0) => p[2] <= 0

\* C10 witness: an arc with start angle -45 was rewritten, its end angle is
\* now -135.
C10_Witness ==
    /\ Called
    /\ orig.kind = "ARC" /\ StoresFlippedAxis(orig)
    /\ orig.dxf["start_angle"] = Some(-45)
    /\ entity.dxf["end_angle"] = Some(-135)

(***************************************************************************)
(* SpecAll: upright_all() called on a store of NumEntities entities, in two *)
(* runs that start from the same store and may be handed the entities in    *)
(* different orders, next to a copy of every entity on which upright() is   *)
(* called alone.                                                            *)
(***************************************************************************)
Ids    == 1..NumEntities
RunIds == {"a", "b"}

\* the sequences that hold every entity of the store once
Orders == { p \in [Ids -> Ids] : \A i, j \in Ids : p[i] = p[j] => i = j }

BatchEntities ==
    { [kind |-> "CIRCLE", is_alive |-> TRUE,
       dxf |-> MkDxf([extrusion |-> Some(<<0, 0, -1>>), center |-> Some(P1),
                      thickness |-> Some(2)])],
      [kind |-> "CIRCLE", is_alive |-> TRUE,
       dxf |-> MkDxf([extrusion |-> Some(<<0, 0, 1>>), center |-> Some(P1)])],
      [kind |-> "ARC", is_alive |-> TRUE,
       dxf |-> MkDxf([extrusion |-> Some(<<0, 0, -1>>), center |-> Some(P2),
                      start_angle |-> Some(30), end_angle |-> Some(120)])],
      [kind |-> "ARC", is_alive |-> TRUE,
       dxf |-> MkDxf([center |-> Some(P2), start_angle |-> Some(30),
                      end_angle |-> Some(120)])],
      [kind |-> "SOLID", is_alive |-> TRUE,
       dxf |-> MkDxf([extrusion |-> Some(<<0, 0, -3>>), vtx0 |-> Some(P1),
                      vtx1 |-> Some(P2)])],
      [kind |-> "ELLIPSE", is_alive |-> TRUE,
       dxf |-> MkDxf([extrusion |-> Some(<<0, 0, -1>>), center |-> Some(P1),
                      start_param |-> Some(500), end_param |-> Some(2000)])],
      [kind |-> "TEXT", is_alive |-> TRUE,
       dxf |-> MkDxf([extrusion |-> Some(<<0, 0, -1>>), thickness |-> Some(2)])],
      [kind |-> "CIRCLE", is_alive |-> FALSE, dxf |-> EmptyDxf] }

InitAll ==
    /\ origs \in [Ids -> BatchEntities]
    /\ runs = [r \in RunIds |-> origs]
    /\ order = [r \in RunIds |-> <<>>]
    /\ solo = origs
    /\ soloCalls = [i \in Ids |-> 0]
    /\ IdleUpright /\ IdleTypes /\ IdleVertex

\* upright_all(entities) on the store of run r
UprightAll(r) ==
    /\ order[r] = <<>>
    /\ \E p \in Orders :
        /\ runs' = [runs EXCEPT ![r] = upright_all(runs[r], p)]
        /\ order' = [order EXCEPT ![r] = p]
    /\ UNCHANGED <<solo, soloCalls, origs, uprightVars, typeVars, vertexVars>>

\* upright(entity) on the copy of entity i
UprightAlone(i) ==
    /\ soloCalls[i] = 0
    /\ solo' = [solo EXCEPT ![i] = upright(solo[i])]
    /\ soloCalls' = [soloCalls EXCEPT ![i] = 1]
    /\ UNCHANGED <<runs, order, origs, uprightVars, typeVars, vertexVars>>

NextAll ==
    \/ \E r \in RunIds : UprightAll(r)
    \/ \E i \in Ids : UprightAlone(i)

SpecAll == InitAll /\ [][NextAll]_vars

\* C6: after upright_all() every entity is in the state that upright() called
\* on it alone leaves it in, whatever the order of the sequence: two runs over
\* the same entities end with the same store.
C6_BatchIsPerEntity ==
    /\ \A r \in RunIds : \A i \in Ids :
           (order[r] # <<>> /\ soloCalls[i] = 1) => runs[r][i] = solo[i]
    /\ (\A r \in RunIds : order[r] # <<>>) => runs["a"] = runs["b"]

\* C6 witness: the two runs were handed the entities in different orders, one
\* entity was rewritten and another one was not.
C6_Witness ==
    /\ \A r \in RunIds : order[r] # <<>>
    /\ order["a"] # order["b"]
    /\ \A i \in Ids : soloCalls[i] = 1
    /\ \E i, j \in Ids : runs["a"][i] # origs[i] /\ runs["a"][j] = origs[j]

(***************************************************************************)
(* lldxf/types.py: the type table.                                         *)
(*                                                                         *)
(* A caster is named by a string.  A raw value is <<"str", s>> for a text  *)
(* s or <<"seq", q>> for a sequence q of texts.  A cast value is           *)
(* <<"str", s>>, <<"int", n>>, <<"float", t>> with t a number of tenths,   *)
(* <<"tuple", q>> with q a sequence of floats, <<"repr", q>> for the text  *)
(* of a sequence, or <<"error", name>> for a raised exception.             *)
(***************************************************************************)
MinCode == 8      \* group codes range over -MinCode .. MaxCode
MaxCode == 1080

\* the list handed to _build_type_table(): (caster, codes) in this order
TypeRules ==
    << <<"point_tuple", 10..19>>,
       <<"float", 20..59>>,
       <<"int", 60..99>>,
       <<"point_tuple", 110..112>>,
       <<"float", 113..149>>,
       <<"int", 160..169>>,
       <<"int", 170..179>>,
       <<"point_tuple", {210}>>,
       <<"float", 211..239>>,
       <<"int", 270..289>>,
       <<"int", 290..299>>,
       <<"int", 370..389>>,
       <<"int", 400..409>>,
       <<"int", 420..429>>,
       <<"int", 440..459>>,
       <<"float", 460..469>>,
       <<"point_tuple", 1010..1019>>,
       <<"float", 1020..1059>>,
       <<"int", 1060..1071>> >>

\* for caster, codes in types[i..]: for code in codes: table[code] = caster
RECURSIVE BuildFrom(_, _, _)
BuildFrom(table, types, i) ==
    IF i > Len(types)
    THEN table
    ELSE BuildFrom([c \in (DOMAIN table) \cup types[i][2] |->
                       IF c \in types[i][2] THEN types[i][1] ELSE table[c]],
                   types, i + 1)

_build_type_table(types) == BuildFrom(<<>>, types, 1)

TYPE_TABLE == _build_type_table(TypeRules)

\* variant: the extrusion code 210 is missing
POINT_CODES_without_extrusion == (10..19) \cup {110, 111, 112} \cup (1010..1019)

POINT_CODES == (10..19) \cup {110, 111, 112, 210} \cup (1010..1019)

GENERAL_MARKER  == 0
SUBCLASS_MARKER == 100
APP_DATA_MARKER == 102
EXT_DATA_MARKER == 1001
GROUP_MARKERS ==
    {GENERAL_MARKER, SUBCLASS_MARKER, APP_DATA_MARKER, EXT_DATA_MARKER}
HANDLE_CODES     == {5, 105}
POINTER_CODES    == (320..369) \cup (390..399) \cup {480, 481, 1005}
HEX_HANDLE_CODES == HANDLE_CODES \cup POINTER_CODES

\* Texts of the model and the number each one spells, in tenths.
NumberTexts  == {"7", "-3", "2.5"}
IntegerTexts == {"7", "-3"}
Tenths(s) == CASE s = "7" -> 70 [] s = "-3" -> -30 [] s = "2.5" -> 25

\* ustr(value): str()
ustr(value) == IF value[1] = "str" THEN value ELSE <<"repr", value[2]>>

\* int(value)
int(value) ==
    IF value[1] # "str" THEN <<"error", "TypeError">>
    ELSE IF value[2] \in IntegerTexts THEN <<"int", Tenths(value[2]) \div 10>>
    ELSE <<"error", "ValueError">>

\* float(value)
float(value) ==
    IF value[1] # "str" THEN <<"error", "TypeError">>
    ELSE IF value[2] \in NumberTexts THEN <<"float", Tenths(value[2])>>
    ELSE <<"error", "ValueError">>

\* The items iterating over a raw value yields: the items of a sequence, the
\* characters of a text.  "7" is its own single character; every other text
\* of the model holds a character ("-", ".", a letter) that float() rejects,
\* which "?" stands for.
Items(value) ==
    IF value[1] = "seq" THEN [k \in DOMAIN value[2] |-> <<"str", value[2][k]>>]
    ELSE IF value[2] = "7" THEN << <<"str", "7">> >>
    ELSE << <<"str", "?">> >>

\* point_tuple(value): tuple(float(f) for f in value)
point_tuple(value) ==
    LET fs == [k \in DOMAIN Items(value) |-> float(Items(value)[k])]
    IN  IF \E k \in DOMAIN fs : fs[k][1] = "error"
        THEN <<"error", "ValueError">>
        ELSE <<"tuple", [k \in DOMAIN fs |-> fs[k][2]]>>

\* caster(value) for a caster of the table or the default
Call(caster, value) ==
    CASE caster = "point_tuple" -> point_tuple(value)
      [] caster = "float"       -> float(value)
      [] caster = "int"         -> int(value)
      [] caster = "ustr"        -> ustr(value)

is_pointer_code(c) == c \in POINTER_CODES

is_point_code(c) == c \in POINT_CODES

is_point_tag(tag) == tag[1] \in POINT_CODES

\* types.get(code, ustr)(value) with types = TYPE_TABLE
cast_tag_value(c, value) ==
    Call(IF c \in DOMAIN TYPE_TABLE THEN TYPE_TABLE[c] ELSE "ustr", value)

\* variant: a code without rule is typed as float
tag_type_default_float(c) ==
    IF c \in DOMAIN TYPE_TABLE THEN TYPE_TABLE[c] ELSE "float"

\* TYPE_TABLE.get(code, ustr)
tag_type(c) == IF c \in DOMAIN TYPE_TABLE THEN TYPE_TABLE[c] ELSE "ustr"

(***************************************************************************)
(* SpecTypes: the functions of the type table called on one group code     *)
(* and one raw value; seen holds the last call and what it returned.       *)
(***************************************************************************)
Codes == (-MinCode)..MaxCode

RawValues ==
    {<<"str", "7">>, <<"str", "-3">>, <<"str", "2.5">>, <<"str", "LINE">>,
     <<"seq", <<"7", "2.5">>>>, <<"seq", <<"7", "-3", "2.5">>>>}

InitTypes ==
    /\ code \in Codes
    /\ raw \in RawValues
    /\ seen = <<>>
    /\ IdleUpright /\ IdleAll /\ IdleVertex

Return(op, value) ==
    /\ seen' = [op |-> op, value |-> value]
    /\ UNCHANGED <<code, raw, uprightVars, allVars, vertexVars>>

TagType       == seen = <<>> /\ Return("tag_type", tag_type(code))
CastTagValue  == seen = <<>> /\ Return("cast_tag_value", cast_tag_value(code, raw))
IsPointCode   == seen = <<>> /\ Return("is_point_code", is_point_code(code))
IsPointerCode == seen = <<>> /\ Return("is_pointer_code", is_pointer_code(code))
IsPointTag    == seen = <<>> /\ Return("is_point_tag", is_point_tag(<<code, raw>>))

NextTypes ==
    \/ TagType
    \/ CastTagValue
    \/ IsPointCode
    \/ IsPointerCode
    \/ IsPointTag

SpecTypes == InitTypes /\ [][NextTypes]_vars

Returned(op) == seen # <<>> /\ seen.op = op

\* the rules of the list whose codes hold c
RulesOf(c) == { i \in DOMAIN TypeRules : c \in TypeRules[i][2] }

\* C7: tag_type(code) returns, for a code inside a declared range, the
\* decoder of every rule that holds the code (so no two rules disagree on
\* it), and the text decoder for a code in no declared range, among them the
\* negative codes, the group markers and the handle and pointer codes;
\* cast_tag_value(code, v) returns what that decoder returns for v.
C7_TagTypeByRange ==
    /\ Returned("tag_type") =>
        /\ \A i \in RulesOf(code) : seen.value = TypeRules[i][1]
        /\ RulesOf(code) = {} => seen.value = "ustr"
        /\ (code < 0 \/ code \in {0, 100, 102, 1001} \/ code \in HEX_HANDLE_CODES)
               => seen.value = "ustr"
    /\ Returned("cast_tag_value") =>
        /\ \A i \in RulesOf(code) : seen.value = Call(TypeRules[i][1], raw)
        /\ RulesOf(code) = {} => seen.value = Call("ustr", raw)

\* C7 witness: tag_type() has returned the text decoder for a pointer code.
C7_Witness ==
    /\ Returned("tag_type")
    /\ code = 390
    /\ seen.value = "ustr"

\* the base codes of points
PointBases == (10..19) \cup (110..112) \cup {210} \cup (1010..1019)

\* C8: is_point_code(c) is true exactly for the codes the type table decodes
\* as point tuples, which are 10-19, 110-112, 210 and 1010-1019; the
\* companion codes c+10 and c+20 of such a code are no point codes and are
\* typed as floating point.
C8_PointCodesAgreeWithTable ==
    /\ Returned("is_point_code") =>
        /\ seen.value <=> (code \in DOMAIN TYPE_TABLE /\ TYPE_TABLE[code] = "point_tuple")
        /\ seen.value <=> code \in PointBases
        /\ (code - 10 \in PointBases \/ code - 20 \in PointBases) => ~seen.value
    /\ (/\ Returned("tag_type")
        /\ (code - 10 \in PointBases \/ code - 20 \in PointBases))
           => seen.value = "float"

\* C8 witness: is_point_code() has returned false for the companion code 230
\* of the extrusion's base code 210.
C8_Witness ==
    /\ Returned("is_point_code")
    /\ code = 230
    /\ seen.value = FALSE

(***************************************************************************)
(* lldxf/types.py: DXFVertex.                                              *)
(*                                                                         *)
(* A number is [t |-> "int", v |-> n] or [t |-> "float", v |-> tenths].    *)
(* A text is a sequence of characters.                                     *)
(***************************************************************************)
MaxComponents == 4    \* components handed to DXFVertex()
MaxOps        == 3    \* calls made on one tag

PyInt(n)   == [t |-> "int", v |-> n]
PyFloat(x) == [t |-> "float", v |-> x]

\* the value of a number in tenths
InTenths(x) == IF x.t = "int" THEN 10 * x.v ELSE x.v

\* a == b on numbers
NumEq(a, b) == InTenths(a) = InTenths(b)

\* a == b on tuples of numbers
TupleEq(a, b) == Len(a) = Len(b) /\ \A k \in DOMAIN a : NumEq(a[k], b[k])

\* array('d', value): every item as a double
array_d(value) == [k \in DOMAIN value |-> PyFloat(InTenths(value[k]))]

Digit(d) == <<"0", "1", "2", "3", "4", "5", "6", "7", "8", "9">>[d + 1]

\* str(n) for an integer n >= 0
RECURSIVE Decimal(_)
Decimal(n) == IF n < 10 THEN <<Digit(n)>> ELSE Decimal(n \div 10) \o <<Digit(n % 10)>>

\* '%3d' % n
Format3d(n) ==
    LET digits == IF n < 0 THEN <<"-">> \o Decimal(-n) ELSE Decimal(n)
    IN  [k \in 1..(IF Len(digits) < 3 THEN 3 - Len(digits) ELSE 0) |-> " "] \o digits

\* '%s' % x: str() of a float with one decimal, str() of an integer
FormatS(x) ==
    IF x.t = "int"
    THEN (IF x.v < 0 THEN <<"-">> \o Decimal(-x.v) ELSE Decimal(x.v))
    ELSE LET a == IF x.v < 0 THEN -x.v ELSE x.v
         IN  (IF x.v < 0 THEN <<"-">> ELSE <<>>)
                 \o Decimal(a \div 10) \o <<".">> \o <<Digit(a % 10)>>

\* TAG_STRING_FORMAT % (code, value): the two lines of the record
TAG_STRING_FORMAT(c, value) == <<Format3d(c), FormatS(value)>>

\* DXFVertex(code, value)
DXFVertex(c, value) == [code |-> c, _value |-> array_d(value)]

\* DXFVertex.value: tuple(self._value)
value(tag) == tag._value

\* the first n items of zip(a, b)
Zip(a, b) ==
    [k \in 1..(IF Len(a) < Len(b) THEN Len(a) ELSE Len(b)) |-> <<a[k], b[k]>>]

\* variant: the companion codes are c+1 and c+2
dxftags_by_one(tag) ==
    Zip(<<tag.code, tag.code + 1, tag.code + 2>>, value(tag))

\* DXFVertex.dxftags()
dxftags(tag) ==
    LET c == tag.code
    IN  Zip(<<c, c + 10, c + 20>>, value(tag))

\* DXFVertex.dxfstr(): the records in order, each one two lines
dxfstr(tag) ==
    [k \in DOMAIN dxftags(tag) |->
        TAG_STRING_FORMAT(dxftags(tag)[k][1], dxftags(tag)[k][2])]

\* DXFTag.clone(): self.__class__(self.code, self._value)
clone(tag) == DXFVertex(tag.code, tag._value)

\* DXFTag.__eq__(other): (self.code, self.value) == other
TagEq(tag, other) == tag.code = other[1] /\ TupleEq(value(tag), other[2])

(***************************************************************************)
(* SpecVertex: one vertex tag, the calls made on it, its clone taking its  *)
(* place, and the tag rebuilt from its own records.                        *)
(***************************************************************************)
Components == {PyInt(1), PyFloat(25), PyFloat(-5)}

VertexValues ==
    UNION { [1..n -> Components] : n \in 1..MaxComponents }

InitVertex ==
    /\ \E c \in POINT_CODES, v \in VertexValues :
        /\ vinit = <<c, v>>
        /\ vtag = DXFVertex(c, v)
    /\ vobs = <<>>
    /\ vops = 0
    /\ IdleUpright /\ IdleAll /\ IdleTypes

Observe(op, ret) ==
    /\ vops < MaxOps
    /\ vops' = vops + 1
    /\ vobs' = [op |-> op, ret |-> ret]

Value ==
    /\ Observe("value", value(vtag))
    /\ UNCHANGED <<vtag, vinit, uprightVars, allVars, typeVars>>

DxfTags ==
    /\ Observe("dxftags", dxftags(vtag))
    /\ UNCHANGED <<vtag, vinit, uprightVars, allVars, typeVars>>

DxfStr ==
    /\ Observe("dxfstr", dxfstr(vtag))
    /\ UNCHANGED <<vtag, vinit, uprightVars, allVars, typeVars>>

\* the clone takes the place of the tag
Clone ==
    /\ vtag' = clone(vtag)
    /\ Observe("clone", <<vtag'.code, value(vtag')>>)
    /\ UNCHANGED <<vinit, uprightVars, allVars, typeVars>>

\* a vertex tag built at the base code from the values of the tag's records
Rebuild ==
    /\ LET records == dxftags(vtag)
       IN  vtag' = DXFVertex(vtag.code, [k \in DOMAIN records |-> records[k][2]])
    /\ Observe("rebuild", <<vtag'.code, value(vtag')>>)
    /\ UNCHANGED <<vinit, uprightVars, allVars, typeVars>>

NextVertex ==
    \/ Value
    \/ DxfTags
    \/ DxfStr
    \/ Clone
    \/ Rebuild

SpecVertex == InitVertex /\ [][NextVertex]_vars

Observed(op) == vobs # <<>> /\ vobs.op = op

\* C9: a vertex tag built from base code c and N components, N = 2 or 3,
\* yields exactly N records, at the codes c, c+10, c+20 in this order, with
\* the components in their order, from dxftags() and as text from dxfstr();
\* the tag rebuilt from the records equals (c, components); and value shows N
\* components after any number of value, dxftags, dxfstr and clone calls.
C9_VertexRecords ==
    LET c == vinit[1]
        comps == vinit[2]
        N == Len(comps)
    IN  N \in {2, 3} =>
          /\ Observed("dxftags") =>
                /\ Len(vobs.ret) = N
                /\ \A k \in 1..N :
                      /\ vobs.ret[k][1] = c + 10 * (k - 1)
                      /\ NumEq(vobs.ret[k][2], comps[k])
          /\ Observed("dxfstr") =>
                /\ Len(vobs.ret) = N
                /\ \A k \in 1..N :
                      /\ vobs.ret[k][1] = Format3d(c + 10 * (k - 1))
                      /\ vobs.ret[k][2] = FormatS(PyFloat(InTenths(comps[k])))
          /\ Observed("rebuild") => TagEq(vtag, <<c, comps>>)
          /\ Observed("value") => Len(vobs.ret) = N
          /\ Observed("clone") => Len(vobs.ret[2]) = N
          /\ Len(value(vtag)) = N

\* C9 witness: the tag (10, (1, 2.5, -0.5)) was rebuilt from its three
\* records after other calls.
C9_Witness ==
    /\ Observed("rebuild")
    /\ vops = 3
    /\ vinit = <<10, <<PyInt(1), PyFloat(25), PyFloat(-5)>>>>
    /\ TagEq(vtag, vinit)

=============================================================================
